---- MODULE Spec2Model ----
(***************************************************************************)
(* Ray tracing bindings of MystralNative (src/src/raytracing).             *)
(*                                                                         *)
(* The state is the file-scope state of rt_common.cpp: the backend         *)
(* pointer g_rtBackend, the three id allocators and the three handle       *)
(* tables, plus history variables.  Every entry point of the bindings is   *)
(* an operator (js_createGeometry ... cleanupRTBindings) that computes,    *)
(* from the current state and the call's inputs, the complete outcome of   *)
(* the call run to completion: the script value returned (ret), the        *)
(* backend methods invoked in order with their arguments (calls), the      *)
(* std::cerr lines written (lines), and the registry and backend pointer   *)
(* the call leaves behind (reg, backend).  The action of an entry point    *)
(* installs that outcome.  Properties of a call are stated over the        *)
(* outcome of every input in every reachable state.                        *)
(***************************************************************************)
EXTENDS Integers, Sequences, FiniteSets, TLC

\* ------------------------------------------------------------------ bounds
\* Number of resources of each kind that can be created in a run (so no id
\* exceeds it).
MaxCreates == 2
\* Longest script array passed to createBLAS / createTLAS / updateTLAS.
MaxLen == 2
\* Number of backend instances initializeRTBindings may create in a run.
MaxBackends == 2
\* Longest transform array passed in an instance object, in floats.
MaxFloats == 17
\* Largest vertex buffer passed to createGeometry, in bytes.
MaxBytes == 40
\* Width in bits of the id allocators: uint32_t scaled down, so that a run
\* can make the 2^IdBits creates that wrap one around.
IdBits == 3

\* --------------------------------------------------------------- constants
\* nullptr: RTGeometryHandle::_handle = nullptr (also a null g_rtBackend).
Null == 0
\* Stands for the script value `undefined` in a numeric option field.
Undefined == -1
\* sizeof(float) and sizeof(uint32_t).
ElemSize == 4
\* createGeometry's default vertexStride.
DefaultStride == 12
\* createGeometry's default vertexOffset, createTLAS's default instanceId.
DefaultZero == 0
\* inst.mask = 0xFF
DefaultMask == 255
\* memcpy(inst.transform, transformData, 16 * sizeof(float))
MatrixLen == 16
\* The value cleanupRTBindings resets each allocator to.
FirstId == 1

VARIABLES
    platform,          \* what createRTBackend finds on this machine
    g_rtBackend,       \* static std::unique_ptr<IRTBackend> g_rtBackend
    backendCount,      \* how many backend instances have been constructed
    g_nextGeometryId,  \* static uint32_t g_nextGeometryId
    g_nextBLASId,      \* static uint32_t g_nextBLASId
    g_nextTLASId,      \* static uint32_t g_nextTLASId
    g_geometries,      \* unordered_map<uint32_t, RTGeometryHandle>
    g_blases,          \* unordered_map<uint32_t, RTBLASHandle>
    g_tlases,          \* unordered_map<uint32_t, RTTLASHandle>
    tlasBuilt,         \* backend side: the instance count each live TLAS was built with
    issued,            \* history: ids returned by create since the last cleanup
    destroyed,         \* history: ids handed to a backend destroy since the last cleanup
    created,           \* history: how many resources of each kind were created, ever
    retired,           \* history: native handles handed to a backend destroy, ever
    frame,             \* locals of the handler in progress (SpecScript; none in Spec)
    tlasRefs           \* backend side: the BLAS ids each live TLAS was last built
                       \* of (kept by SpecScript)

vars == <<platform, g_rtBackend, backendCount, g_nextGeometryId, g_nextBLASId,
          g_nextTLASId, g_geometries, g_blases, g_tlases, tlasBuilt,
          issued, destroyed, created, retired, frame, tlasRefs>>

Kinds == {"geometry", "blas", "tlas"}

\* ------------------------------------------------------------ finite maps
EmptyMap == << >>
MapPut(m, k, v) == [x \in (DOMAIN m) \cup {k} |-> IF x = k THEN v ELSE m[x]]
\* Mutant: the erase is forgotten.
MapErase_forgotten(m, k) == m
MapErase(m, k) == [x \in (DOMAIN m) \ {k} |-> m[x]]

\* All orders in which the elements of S can be visited (unordered_map
\* iteration order is unspecified).
Orders(S) ==
    {s \in [1..Cardinality(S) -> S] : \A i, j \in DOMAIN s : i # j => s[i] # s[j]}

\* ---------------------------------------------------------- script values
\* A script value as the bindings see it through getProperty(obj, "_id"):
\* its _type tag, whether _id is defined, and _id.
JSNull == [type |-> "null", hasId |-> FALSE, id |-> 0]
JSUndefined == [type |-> "undefined", hasId |-> FALSE, id |-> 0]
JSBoolean(b) == [type |-> IF b THEN "true" ELSE "false", hasId |-> FALSE, id |-> 0]
JSString(s) == [type |-> s, hasId |-> FALSE, id |-> 0]

Wrapper(kind, id) == [type |-> kind, hasId |-> TRUE, id |-> id]
createGeometryJS(id) == Wrapper("geometry", id)
createBLASJS(id) == Wrapper("blas", id)
createTLASJS(id) == Wrapper("tlas", id)

\* static_cast<uint32_t>(engine->toNumber(idVal)), 0 when _id is undefined.
IdOf(obj) == IF ~obj.hasId THEN 0 ELSE obj.id
getGeometryId(obj) == IdOf(obj)
getBLASId(obj) == IdOf(obj)
getTLASId(obj) == IdOf(obj)

\* ------------------------------------------------------------ native side
\* A native handle struct; _handle is null or points into the backend
\* instance that made it (modelled by that instance's number).
Handle(p, id) == [_handle |-> p, _id |-> id]
NullHandle == Handle(Null, 0)

NoBackend == [kind |-> "null", inst |-> 0]
\* Mutant: the stub claims support as well.
isSupported_always(b) == TRUE
\* StubRTBackend::isSupported() is false; a platform backend reports true.
isSupported(b) == b.kind = "hw"
\* StubRTBackend::getBackend() / a platform backend's name.
getBackend(b) == IF b.kind = "hw" THEN "hw" ELSE "none"
\* std::make_unique<StubRTBackend>() unless the platform offers hardware RT.
createRTBackend(n) == [kind |-> IF platform = "hw" THEN "hw" ELSE "stub", inst |-> n]

\* The _handle values a backend's create method can return: the stub always
\* returns a null handle, a platform backend a null handle (failure) or a
\* pointer to a resource it owns.
BackendCreate(b) == IF b.kind = "hw" THEN {Null, b.inst} ELSE {Null}

\* One backend method invocation.
BCall(m, h, a) == [m |-> m, h |-> h, args |-> a]
\* One std::cerr line.
Line(op, msg, i) == [op |-> op, msg |-> msg, index |-> i]
NotAvailable(op) == Line(op, "Hardware ray tracing not available", -1)
\* Lines the backend itself writes when its method `op` is invoked.
BackendDiag(b, op) == IF b.kind = "stub" THEN <<NotAvailable(op)>> ELSE << >>

\* Mutant: only the null check, isSupported() is not asked.
Unavailable_nullOnly(b) == b.kind = "null"
\* if (!g_rtBackend || !g_rtBackend->isSupported())
Unavailable(b) == b.kind = "null" \/ ~isSupported(b)

\* ----------------------------------------------------------- typed buffers
\* A script value handed to getArrayBufferData: `undefined`, some value that
\* is not a buffer, or a typed array of `bytes` bytes holding `elems`.
JSUndefinedValue == [tag |-> "undefined", bytes |-> 0, elems |-> << >>]
NotABuffer == [tag |-> "other", bytes |-> 0, elems |-> << >>]
RawBuffer(n) == [tag |-> "buffer", bytes |-> n, elems |-> << >>]
Float32Array(s) == [tag |-> "buffer", bytes |-> ElemSize * Len(s), elems |-> s]

\* engine->getArrayBufferData(value, &byteSize)
getArrayBufferData(v) ==
    IF v.tag = "buffer" /\ v.bytes > 0
    THEN [data |-> 1, byteSize |-> v.bytes]
    ELSE [data |-> Null, byteSize |-> 0]

\* extractFloat32Array: nullptr when there is no data or no bytes (outCount
\* is then left at the caller's 0), else the data with byteSize / sizeof(float).
extractFloat32Array(v) ==
    LET b == getArrayBufferData(v) IN
    IF b.data = Null \/ b.byteSize = 0
    THEN [data |-> Null, count |-> 0]
    ELSE [data |-> b.data, count |-> b.byteSize \div ElemSize]

\* extractUint32Array: the same with sizeof(uint32_t).
extractUint32Array(v) ==
    LET b == getArrayBufferData(v) IN
    IF b.data = Null \/ b.byteSize = 0
    THEN [data |-> Null, count |-> 0]
    ELSE [data |-> b.data, count |-> b.byteSize \div ElemSize]

\* ------------------------------------------------------------- allocators
\* Mutant: the post-increment is lost and the allocator stays where it was.
NextId_stuck(n) == n
\* uint32_t id = g_nextGeometryId++ leaves the allocator at id + 1, modulo
\* the width of the counter.
NextId(n) == (n + 1) % (2 ^ IdBits)
\* Mutant: the null check on the backend's result is missing.
Created_unchecked(p) == TRUE
\* if (!handle._handle) return engine->newNull();
Created(p) == p # Null

\* ------------------------------------------------------------- marshaling
\* Mutant: the float count is taken for the vertex count.
GeometryDesc_floatCount(options, v) ==
    LET ix == IF options.indices.tag = "undefined"
              THEN [data |-> Null, count |-> 0]
              ELSE extractUint32Array(options.indices)
    IN [vertexCount  |-> v.count,
        vertexStride |-> IF options.vertexStride = Undefined
                         THEN DefaultStride ELSE options.vertexStride,
        vertexOffset |-> IF options.vertexOffset = Undefined
                         THEN DefaultZero ELSE options.vertexOffset,
        indices      |-> ix.data,
        indexCount   |-> ix.count]

\* RTGeometryDesc built by js_createGeometry from the options object and the
\* extracted vertex floats.
GeometryDesc(options, v) ==
    LET ix == IF options.indices.tag = "undefined"
              THEN [data |-> Null, count |-> 0]
              ELSE extractUint32Array(options.indices)
    IN [vertexCount  |-> v.count \div 3,
        vertexStride |-> IF options.vertexStride = Undefined
                         THEN DefaultStride ELSE options.vertexStride,
        vertexOffset |-> IF options.vertexOffset = Undefined
                         THEN DefaultZero ELSE options.vertexOffset,
        indices      |-> ix.data,
        indexCount   |-> ix.count]

\* Mutant: the handles are collected back to front.
CollectGeometries_reversed(elems) ==
    LET unresolved == {i \in DOMAIN elems : getGeometryId(elems[i]) \notin DOMAIN g_geometries}
    IN IF unresolved # {}
       THEN [bad |-> CHOOSE i \in unresolved : \A j \in unresolved : i <= j,
             handles |-> << >>]
       ELSE [bad |-> 0,
             handles |-> [i \in DOMAIN elems |->
                            g_geometries[getGeometryId(elems[Len(elems) + 1 - i])]]]

\* Mutant: an element that does not resolve is skipped (continue) and the
\* BLAS is built from the rest.
CollectGeometries_skip(elems) ==
    LET ok == SelectSeq(elems, LAMBDA o : getGeometryId(o) \in DOMAIN g_geometries)
    IN [bad |-> 0, handles |-> [i \in DOMAIN ok |-> g_geometries[getGeometryId(ok[i])]]]

\* The loop of js_createBLAS over the script array: `bad` is the position
\* (from 1) of the first element whose id is not in g_geometries, 0 if every
\* element resolves; `handles` is then what was pushed, in array order.
CollectGeometries(elems) ==
    LET unresolved == {i \in DOMAIN elems : getGeometryId(elems[i]) \notin DOMAIN g_geometries}
    IN IF unresolved # {}
       THEN [bad |-> CHOOSE i \in unresolved : \A j \in unresolved : i <= j,
             handles |-> << >>]
       ELSE [bad |-> 0,
             handles |-> [i \in DOMAIN elems |-> g_geometries[getGeometryId(elems[i])]]]

\* Mutant: the supplied floats, however few, are copied over the identity.
MarshalTransform_partial(t) ==
    LET x == extractFloat32Array(t) IN
    [i \in 1..MatrixLen |-> IF x.data # Null /\ i <= x.count THEN t.elems[i]
                            ELSE IF i \in {1, 6, 11, 16} THEN 1 ELSE 0]

\* inst.transform after the transform branch of js_createTLAS / js_updateTLAS:
\* a memcpy of the first 16 floats, or the zero-initialised struct with
\* entries 0, 5, 10, 15 set to 1.
MarshalTransform(t) ==
    LET x == extractFloat32Array(t) IN
    IF x.data # Null /\ x.count >= MatrixLen
    THEN [i \in 1..MatrixLen |-> t.elems[i]]
    ELSE [i \in 1..MatrixLen |-> IF i \in {1, 6, 11, 16} THEN 1 ELSE 0]

\* One RTTLASInstance from an instance object whose blas resolves.
MarshalInstance(o) ==
    [blas       |-> g_blases[getBLASId(o.blas)],
     transform  |-> MarshalTransform(o.transform),
     instanceId |-> IF o.instanceId = Undefined THEN DefaultZero ELSE o.instanceId,
     mask       |-> DefaultMask,
     flags      |-> 0]

\* Mutant: only the first instance's blas is checked; a later instance that
\* does not resolve is left out.
CollectInstances_firstOnly(elems) ==
    IF elems # << >> /\ getBLASId(elems[1].blas) \notin DOMAIN g_blases
    THEN [bad |-> 1, instances |-> << >>]
    ELSE LET ok == SelectSeq(elems, LAMBDA o : getBLASId(o.blas) \in DOMAIN g_blases)
         IN [bad |-> 0, instances |-> [i \in DOMAIN ok |-> MarshalInstance(ok[i])]]

\* The loop of js_createTLAS / js_updateTLAS over the instance array.
CollectInstances(elems) ==
    LET unresolved == {i \in DOMAIN elems : getBLASId(elems[i].blas) \notin DOMAIN g_blases}
    IN IF unresolved # {}
       THEN [bad |-> CHOOSE i \in unresolved : \A j \in unresolved : i <= j,
             instances |-> << >>]
       ELSE [bad |-> 0,
             instances |-> [i \in DOMAIN elems |-> MarshalInstance(elems[i])]]

\* ------------------------------------------------------------------ inputs
\* Handle-like script values a caller can pass: wrappers of every kind with
\* every id up to MaxCreates (issued or not, 0 is fabricated) and a value with no _id.
HandleObjs == {Wrapper(k, i) : k \in Kinds, i \in 0..MaxCreates} \cup {JSUndefined}

\* Argument vectors of destroyGeometry / destroyBLAS / destroyTLAS.
DestroyArgs == {<< >>} \cup {<<o>> : o \in HandleObjs}

\* Option objects of createGeometry.
GeometryOptions ==
    {[isObject |-> TRUE, vertices |-> v, indices |-> i,
      vertexStride |-> Undefined, vertexOffset |-> Undefined] :
        v \in {JSUndefinedValue, RawBuffer(0), RawBuffer(4), RawBuffer(36)},
        i \in {JSUndefinedValue, RawBuffer(12)}}
    \cup {[isObject |-> TRUE, vertices |-> RawBuffer(36), indices |-> RawBuffer(0),
           vertexStride |-> 16, vertexOffset |-> 4],
          [isObject |-> TRUE, vertices |-> RawBuffer(36), indices |-> NotABuffer,
           vertexStride |-> Undefined, vertexOffset |-> Undefined],
          [isObject |-> FALSE, vertices |-> JSUndefinedValue, indices |-> JSUndefinedValue,
           vertexStride |-> Undefined, vertexOffset |-> Undefined]}
\* Option objects {vertices} with a vertex buffer of every byte length up to
\* MaxBytes and nothing else.
VertexOnlyOptions ==
    {[isObject |-> TRUE, vertices |-> RawBuffer(n), indices |-> JSUndefinedValue,
      vertexStride |-> Undefined, vertexOffset |-> Undefined] : n \in 0..MaxBytes}
GeometryArgs == {<< >>} \cup {<<o>> : o \in GeometryOptions \cup VertexOnlyOptions}

\* Script arrays: isArray is false for a value that is not an array.
ArraysOf(S) ==
    {[isArray |-> TRUE, elems |-> e] : e \in UNION {[1..n -> S] : n \in 0..MaxLen}}
    \cup {[isArray |-> FALSE, elems |-> << >>]}

\* Elements of the arrays: the wrappers of the expected kind, one wrapper of
\* another kind, and a value with no _id.
GeometryElems ==
    {Wrapper("geometry", i) : i \in 1..MaxCreates} \cup {Wrapper("blas", 1), JSUndefined}
BLASRefs ==
    {Wrapper("blas", i) : i \in 1..MaxCreates} \cup {Wrapper("geometry", 1), JSUndefined}
TLASRefs ==
    {Wrapper("tlas", i) : i \in 1..MaxCreates} \cup {Wrapper("blas", 1), JSUndefined}
BLASArgs == {<< >>} \cup {<<a>> : a \in ArraysOf(GeometryElems)}

\* A full 4x4 matrix that is not the identity.
SomeMatrix == [i \in 1..MatrixLen |-> i + 1]
\* An instance object {blas: o} with no other property.
PlainInstance(o) ==
    [blas |-> o, transform |-> JSUndefinedValue, instanceId |-> Undefined,
     mask |-> Undefined, flags |-> Undefined]
\* TLAS instance objects {blas, transform?, instanceId?, mask?, flags?}.
InstanceObjs ==
    {PlainInstance(o) : o \in BLASRefs}
    \cup {[blas |-> Wrapper("blas", 1), transform |-> Float32Array(SomeMatrix),
           instanceId |-> 7, mask |-> 15, flags |-> 1]}
\* Transform values: absent, not a typed array, or a Float32Array of any
\* length up to MaxFloats whose entries are all different from 0 and 1.
Ramp(n) == [i \in 1..n |-> i + 1]
TransformValues ==
    {JSUndefinedValue, NotABuffer} \cup {Float32Array(Ramp(n)) : n \in 0..MaxFloats}
\* Instances of BLAS 1 with each of these transforms, one to an array.
TransformInstances ==
    {[PlainInstance(Wrapper("blas", 1)) EXCEPT !.transform = t] : t \in TransformValues}
TransformArrays == {[isArray |-> TRUE, elems |-> <<o>>] : o \in TransformInstances}
TLASArgs ==
    {<< >>} \cup {<<a>> : a \in ArraysOf(InstanceObjs)} \cup {<<a>> : a \in TransformArrays}
\* updateTLAS(tlas, instances), with plain instance objects.
PlainInstanceObjs ==
    {PlainInstance(o) : o \in {Wrapper("blas", i) : i \in 1..MaxCreates} \cup {JSUndefined}}
UpdateArgs ==
    {<< >>} \cup {<<t>> : t \in TLASRefs}
    \cup {<<t, a>> : t \in TLASRefs, a \in ArraysOf(PlainInstanceObjs)}
    \cup {<<Wrapper("tlas", 1), a>> : a \in TransformArrays}

\* Option objects of traceRays {tlas, width, height, outputTexture, uniforms?}.
TraceOptions ==
    {[isObject |-> TRUE, tlas |-> t, width |-> 4, height |-> 2, uniforms |-> u] :
        t \in TLASRefs, u \in {JSUndefinedValue, RawBuffer(16)}}
    \cup {[isObject |-> FALSE, tlas |-> JSUndefined, width |-> 0, height |-> 0,
           uniforms |-> JSUndefinedValue]}
TraceArgs == {<< >>} \cup {<<o>> : o \in TraceOptions}

\* ----------------------------------------------------------- entry points
\* The allocators, the tables and the backend-side TLAS contents as one value.
Registry ==
    [nextGeometryId |-> g_nextGeometryId, nextBLASId |-> g_nextBLASId,
     nextTLASId |-> g_nextTLASId, geometries |-> g_geometries,
     blases |-> g_blases, tlases |-> g_tlases, built |-> tlasBuilt]

\* The outcome of a call that fails or otherwise leaves the state alone.
Absorbed(ret, calls, lines) ==
    [ret |-> ret, calls |-> calls, lines |-> lines, reg |-> Registry,
     backend |-> g_rtBackend]
\* The outcome of a call that changes the registry.
Effect(ret, calls, lines, reg) ==
    [ret |-> ret, calls |-> calls, lines |-> lines, reg |-> reg,
     backend |-> g_rtBackend]

\* Mutant: the query creates the backend when there is none.
js_isSupported_lazyInit ==
    IF g_rtBackend.kind = "null"
    THEN [ret |-> JSBoolean(isSupported(createRTBackend(backendCount + 1))),
          calls |-> << >>, lines |-> << >>, reg |-> Registry,
          backend |-> createRTBackend(backendCount + 1)]
    ELSE Absorbed(JSBoolean(isSupported(g_rtBackend)), << >>, << >>)

js_isSupported ==
    Absorbed(IF g_rtBackend.kind = "null" THEN JSBoolean(FALSE)
             ELSE JSBoolean(isSupported(g_rtBackend)), << >>, << >>)

js_getBackend ==
    Absorbed(IF g_rtBackend.kind = "null" THEN JSString("none")
             ELSE JSString(getBackend(g_rtBackend)), << >>, << >>)

\* p is the _handle the backend's createGeometry returns if it is invoked.
js_createGeometry(args, p) ==
    LET op == "createGeometry" IN
    IF Unavailable(g_rtBackend) THEN
        Absorbed(JSNull, << >>, <<NotAvailable(op)>>)
    ELSE IF args = << >> \/ ~args[1].isObject THEN
        Absorbed(JSNull, << >>, <<Line(op, "Expected options object", -1)>>)
    ELSE LET options == args[1]
             v == extractFloat32Array(options.vertices)
         IN IF v.data = Null \/ v.count = 0 THEN
                Absorbed(JSNull, << >>, <<Line(op, "Invalid or missing vertices", -1)>>)
            ELSE LET calls == <<BCall(op, NullHandle, <<GeometryDesc(options, v)>>)>>
                     id == g_nextGeometryId
                 IN IF ~Created(p) THEN
                        Absorbed(JSNull, calls, BackendDiag(g_rtBackend, op))
                    ELSE
                        Effect(createGeometryJS(id), calls, BackendDiag(g_rtBackend, op),
                               [Registry EXCEPT
                                   !.nextGeometryId = NextId(id),
                                   !.geometries = MapPut(@, id, Handle(p, id))])

\* Mutant: the length check is missing and an empty array goes to the backend.
js_createBLAS_emptyOk(args, p) ==
    LET op == "createBLAS" IN
    IF Unavailable(g_rtBackend) THEN
        Absorbed(JSNull, << >>, <<NotAvailable(op)>>)
    ELSE IF args = << >> \/ ~args[1].isArray THEN
        Absorbed(JSNull, << >>, <<Line(op, "Expected array of geometries", -1)>>)
    ELSE LET c == CollectGeometries(args[1].elems) IN
         IF c.bad # 0 THEN
             Absorbed(JSNull, << >>, <<Line(op, "Invalid geometry at index", c.bad - 1)>>)
         ELSE LET calls == <<BCall(op, NullHandle, c.handles)>>
                  id == g_nextBLASId
              IN IF ~Created(p) THEN
                     Absorbed(JSNull, calls, BackendDiag(g_rtBackend, op))
                 ELSE
                     Effect(createBLASJS(id), calls, BackendDiag(g_rtBackend, op),
                            [Registry EXCEPT
                                !.nextBLASId = NextId(id),
                                !.blases = MapPut(@, id, Handle(p, id))])

\* p is the _handle the backend's createBLAS returns if it is invoked.
js_createBLAS(args, p) ==
    LET op == "createBLAS" IN
    IF Unavailable(g_rtBackend) THEN
        Absorbed(JSNull, << >>, <<NotAvailable(op)>>)
    ELSE IF args = << >> \/ ~args[1].isArray THEN
        Absorbed(JSNull, << >>, <<Line(op, "Expected array of geometries", -1)>>)
    ELSE IF Len(args[1].elems) = 0 THEN
        Absorbed(JSNull, << >>, <<Line(op, "Empty geometry array", -1)>>)
    ELSE LET c == CollectGeometries(args[1].elems) IN
         IF c.bad # 0 THEN
             Absorbed(JSNull, << >>, <<Line(op, "Invalid geometry at index", c.bad - 1)>>)
         ELSE LET calls == <<BCall(op, NullHandle, c.handles)>>
                  id == g_nextBLASId
              IN IF ~Created(p) THEN
                     Absorbed(JSNull, calls, BackendDiag(g_rtBackend, op))
                 ELSE
                     Effect(createBLASJS(id), calls, BackendDiag(g_rtBackend, op),
                            [Registry EXCEPT
                                !.nextBLASId = NextId(id),
                                !.blases = MapPut(@, id, Handle(p, id))])

\* Mutant: the id is taken before the backend is asked, so a build the
\* backend refuses still consumes an id.
js_createTLAS_eagerId(args, p) ==
    LET op == "createTLAS" IN
    IF Unavailable(g_rtBackend) THEN
        Absorbed(JSNull, << >>, <<NotAvailable(op)>>)
    ELSE IF args = << >> \/ ~args[1].isArray THEN
        Absorbed(JSNull, << >>, <<Line(op, "Expected array of instances", -1)>>)
    ELSE IF Len(args[1].elems) = 0 THEN
        Absorbed(JSNull, << >>, <<Line(op, "Empty instance array", -1)>>)
    ELSE LET c == CollectInstances(args[1].elems) IN
         IF c.bad # 0 THEN
             Absorbed(JSNull, << >>, <<Line(op, "Invalid BLAS at instance", c.bad - 1)>>)
         ELSE LET calls == <<BCall(op, NullHandle, c.instances)>>
                  id == g_nextTLASId
              IN IF ~Created(p) THEN
                     Effect(JSNull, calls, BackendDiag(g_rtBackend, op),
                            [Registry EXCEPT !.nextTLASId = NextId(id)])
                 ELSE
                     Effect(createTLASJS(id), calls, BackendDiag(g_rtBackend, op),
                            [Registry EXCEPT
                                !.nextTLASId = NextId(id),
                                !.tlases = MapPut(@, id, Handle(p, id)),
                                !.built = MapPut(@, id, Len(c.instances))])

\* p is the _handle the backend's createTLAS returns if it is invoked.
js_createTLAS(args, p) ==
    LET op == "createTLAS" IN
    IF Unavailable(g_rtBackend) THEN
        Absorbed(JSNull, << >>, <<NotAvailable(op)>>)
    ELSE IF args = << >> \/ ~args[1].isArray THEN
        Absorbed(JSNull, << >>, <<Line(op, "Expected array of instances", -1)>>)
    ELSE IF Len(args[1].elems) = 0 THEN
        Absorbed(JSNull, << >>, <<Line(op, "Empty instance array", -1)>>)
    ELSE LET c == CollectInstances(args[1].elems) IN
         IF c.bad # 0 THEN
             Absorbed(JSNull, << >>, <<Line(op, "Invalid BLAS at instance", c.bad - 1)>>)
         ELSE LET calls == <<BCall(op, NullHandle, c.instances)>>
                  id == g_nextTLASId
              IN IF ~Created(p) THEN
                     Absorbed(JSNull, calls, BackendDiag(g_rtBackend, op))
                 ELSE
                     Effect(createTLASJS(id), calls, BackendDiag(g_rtBackend, op),
                            [Registry EXCEPT
                                !.nextTLASId = NextId(id),
                                !.tlases = MapPut(@, id, Handle(p, id)),
                                !.built = MapPut(@, id,
                                    Len(c.instances))])

\* Mutant: a successful update registers the TLAS again under a fresh id.
js_updateTLAS_reRegister(args) ==
    LET op == "updateTLAS" IN
    IF Unavailable(g_rtBackend) THEN
        Absorbed(JSUndefined, << >>, <<NotAvailable(op)>>)
    ELSE IF Len(args) < 2 THEN
        Absorbed(JSUndefined, << >>, <<Line(op, "Expected (tlas, instances)", -1)>>)
    ELSE IF getTLASId(args[1]) \notin DOMAIN g_tlases THEN
        Absorbed(JSUndefined, << >>, <<Line(op, "Invalid TLAS", -1)>>)
    ELSE IF ~args[2].isArray THEN
        Absorbed(JSUndefined, << >>, <<Line(op, "Expected array of instances", -1)>>)
    ELSE LET c == CollectInstances(args[2].elems) IN
         IF c.bad # 0 THEN
             Absorbed(JSUndefined, << >>, <<Line(op, "Invalid BLAS at instance", c.bad - 1)>>)
         ELSE
             Effect(JSUndefined,
                    <<BCall(op, g_tlases[getTLASId(args[1])], c.instances)>>,
                    BackendDiag(g_rtBackend, op),
                    [Registry EXCEPT
                        !.nextTLASId = NextId(g_nextTLASId),
                        !.tlases = MapPut(@, g_nextTLASId, g_tlases[getTLASId(args[1])])])

js_updateTLAS(args) ==
    LET op == "updateTLAS" IN
    IF Unavailable(g_rtBackend) THEN
        Absorbed(JSUndefined, << >>, <<NotAvailable(op)>>)
    ELSE IF Len(args) < 2 THEN
        Absorbed(JSUndefined, << >>, <<Line(op, "Expected (tlas, instances)", -1)>>)
    ELSE IF getTLASId(args[1]) \notin DOMAIN g_tlases THEN
        Absorbed(JSUndefined, << >>, <<Line(op, "Invalid TLAS", -1)>>)
    ELSE IF ~args[2].isArray THEN
        Absorbed(JSUndefined, << >>, <<Line(op, "Expected array of instances", -1)>>)
    ELSE LET c == CollectInstances(args[2].elems) IN
         IF c.bad # 0 THEN
             Absorbed(JSUndefined, << >>, <<Line(op, "Invalid BLAS at instance", c.bad - 1)>>)
         ELSE
             Absorbed(JSUndefined,
                      <<BCall(op, g_tlases[getTLASId(args[1])], c.instances)>>,
                      BackendDiag(g_rtBackend, op))

\* Mutant: a tlas that does not resolve is traced with a null handle.
js_traceRays_unchecked(args) ==
    LET op == "traceRays" IN
    IF Unavailable(g_rtBackend) THEN
        Absorbed(JSUndefined, << >>, <<NotAvailable(op)>>)
    ELSE IF args = << >> \/ ~args[1].isObject THEN
        Absorbed(JSUndefined, << >>, <<Line(op, "Expected options object", -1)>>)
    ELSE LET options == args[1]
             tlasId == getTLASId(options.tlas)
             traceOptions ==
                 [width |-> options.width, height |-> options.height,
                  uniformsSize |-> IF options.uniforms.tag = "undefined" THEN 0
                                   ELSE getArrayBufferData(options.uniforms).byteSize]
         IN Absorbed(JSUndefined,
                     <<BCall(op, IF tlasId \in DOMAIN g_tlases THEN g_tlases[tlasId]
                                 ELSE NullHandle, <<traceOptions>>)>>,
                     BackendDiag(g_rtBackend, op))

js_traceRays(args) ==
    LET op == "traceRays" IN
    IF Unavailable(g_rtBackend) THEN
        Absorbed(JSUndefined, << >>, <<NotAvailable(op)>>)
    ELSE IF args = << >> \/ ~args[1].isObject THEN
        Absorbed(JSUndefined, << >>, <<Line(op, "Expected options object", -1)>>)
    ELSE IF getTLASId(args[1].tlas) \notin DOMAIN g_tlases THEN
        Absorbed(JSUndefined, << >>, <<Line(op, "Invalid TLAS", -1)>>)
    ELSE LET options == args[1]
             traceOptions ==
                 [width |-> options.width, height |-> options.height,
                  uniformsSize |-> IF options.uniforms.tag = "undefined" THEN 0
                                   ELSE getArrayBufferData(options.uniforms).byteSize]
         IN Absorbed(JSUndefined,
                     <<BCall(op, g_tlases[getTLASId(options.tlas)], <<traceOptions>>)>>,
                     BackendDiag(g_rtBackend, op))

\* The backend call a destroy entry point forwards: if (g_rtBackend) ...
ForwardDestroy(m, h) ==
    IF g_rtBackend.kind # "null" THEN <<BCall(m, h, << >>)>> ELSE << >>

\* Mutant: the call is forwarded but the table entry is not erased.
js_destroyBLAS_keepEntry(args) ==
    IF args = << >> THEN Absorbed(JSUndefined, << >>, << >>)
    ELSE LET blasId == getBLASId(args[1]) IN
         IF blasId \in DOMAIN g_blases THEN
             Absorbed(JSUndefined, ForwardDestroy("destroyBLAS", g_blases[blasId]), << >>)
         ELSE Absorbed(JSUndefined, << >>, << >>)

js_destroyBLAS(args) ==
    IF args = << >> THEN Absorbed(JSUndefined, << >>, << >>)
    ELSE LET blasId == getBLASId(args[1]) IN
         IF blasId \in DOMAIN g_blases THEN
             Effect(JSUndefined, ForwardDestroy("destroyBLAS", g_blases[blasId]), << >>,
                    [Registry EXCEPT !.blases = MapErase(@, blasId)])
         ELSE Absorbed(JSUndefined, << >>, << >>)

\* Mutant: destroying a TLAS walks into the BLAS table and clears it too.
js_destroyTLAS_cascade(args) ==
    IF args = << >> THEN Absorbed(JSUndefined, << >>, << >>)
    ELSE LET tlasId == getTLASId(args[1]) IN
         IF tlasId \in DOMAIN g_tlases THEN
             Effect(JSUndefined, ForwardDestroy("destroyTLAS", g_tlases[tlasId]), << >>,
                    [Registry EXCEPT !.tlases = MapErase(@, tlasId),
                                     !.built = MapErase(@, tlasId),
                                     !.blases = EmptyMap])
         ELSE Absorbed(JSUndefined, << >>, << >>)

js_destroyTLAS(args) ==
    IF args = << >> THEN Absorbed(JSUndefined, << >>, << >>)
    ELSE LET tlasId == getTLASId(args[1]) IN
         IF tlasId \in DOMAIN g_tlases THEN
             Effect(JSUndefined, ForwardDestroy("destroyTLAS", g_tlases[tlasId]), << >>,
                    [Registry EXCEPT !.tlases = MapErase(@, tlasId),
                                     !.built = MapErase(@, tlasId)])
         ELSE Absorbed(JSUndefined, << >>, << >>)

\* Mutant: the freed id goes back to the allocator (ids are recycled).
js_destroyGeometry_recycle(args) ==
    IF args = << >> THEN Absorbed(JSUndefined, << >>, << >>)
    ELSE LET geomId == getGeometryId(args[1]) IN
         IF geomId \in DOMAIN g_geometries THEN
             Effect(JSUndefined, ForwardDestroy("destroyGeometry", g_geometries[geomId]),
                    << >>, [Registry EXCEPT !.geometries = MapErase(@, geomId),
                                            !.nextGeometryId = geomId])
         ELSE Absorbed(JSUndefined, << >>, << >>)

js_destroyGeometry(args) ==
    IF args = << >> THEN Absorbed(JSUndefined, << >>, << >>)
    ELSE LET geomId == getGeometryId(args[1]) IN
         IF geomId \in DOMAIN g_geometries THEN
             Effect(JSUndefined, ForwardDestroy("destroyGeometry", g_geometries[geomId]),
                    << >>, [Registry EXCEPT !.geometries = MapErase(@, geomId)])
         ELSE Absorbed(JSUndefined, << >>, << >>)

\* Mutant: the destructor is run without asking whether there is a backend.
Discard_unguarded(b) == <<BCall("~IRTBackend", Handle(b.inst, 0), << >>)>>
\* ~IRTBackend, run by unique_ptr when the backend b is let go.
Discard(b) ==
    IF b.kind # "null" THEN <<BCall("~IRTBackend", Handle(b.inst, 0), << >>)>> ELSE << >>

\* Mutant: the backend is created before the engine is looked at.
initializeRTBindings_backendFirst(engine) ==
    [ret |-> JSBoolean(engine), calls |-> Discard(g_rtBackend),
     lines |-> IF engine THEN << >>
               ELSE <<Line("initializeRTBindings", "No JS engine provided", -1)>>,
     reg |-> Registry, backend |-> createRTBackend(backendCount + 1)]

\* engine is TRUE for a script engine, FALSE for a null pointer.
initializeRTBindings(engine) ==
    IF ~engine THEN
        Absorbed(JSBoolean(FALSE), << >>,
                 <<Line("initializeRTBindings", "No JS engine provided", -1)>>)
    ELSE
        [ret |-> JSBoolean(TRUE), calls |-> Discard(g_rtBackend), lines |-> << >>,
         reg |-> Registry, backend |-> createRTBackend(backendCount + 1)]

\* The backend calls of one loop of cleanupRTBindings over a table visited
\* in the order o; without a backend the loop body does nothing.
DestroyLoop(m, table, o) ==
    IF g_rtBackend.kind = "null" THEN << >>
    ELSE [i \in DOMAIN o |-> BCall(m, table[o[i]], << >>)]

\* Mutant: the loops run in creation order: geometries, BLASes, TLASes.
cleanupRTBindings_creationOrder(ot, ob, og) ==
    [ret |-> JSUndefined,
     calls |-> DestroyLoop("destroyGeometry", g_geometries, og)
               \o DestroyLoop("destroyBLAS", g_blases, ob)
               \o DestroyLoop("destroyTLAS", g_tlases, ot)
               \o Discard(g_rtBackend),
     lines |-> << >>,
     reg |-> [nextGeometryId |-> FirstId, nextBLASId |-> FirstId, nextTLASId |-> FirstId,
              geometries |-> EmptyMap, blases |-> EmptyMap, tlases |-> EmptyMap,
              built |-> EmptyMap],
     backend |-> NoBackend]

\* Mutant: the backend is discarded first, so the loops find no backend and
\* destroy nothing.
cleanupRTBindings_resetFirst(ot, ob, og) ==
    [ret |-> JSUndefined,
     calls |-> Discard(g_rtBackend),
     lines |-> << >>,
     reg |-> [nextGeometryId |-> FirstId, nextBLASId |-> FirstId, nextTLASId |-> FirstId,
              geometries |-> EmptyMap, blases |-> EmptyMap, tlases |-> EmptyMap,
              built |-> EmptyMap],
     backend |-> NoBackend]

\* ot, ob, og: the orders in which the three tables are iterated.
cleanupRTBindings(ot, ob, og) ==
    [ret |-> JSUndefined,
     calls |-> DestroyLoop("destroyTLAS", g_tlases, ot)
               \o DestroyLoop("destroyBLAS", g_blases, ob)
               \o DestroyLoop("destroyGeometry", g_geometries, og)
               \o Discard(g_rtBackend),
     lines |-> << >>,
     reg |-> [nextGeometryId |-> FirstId, nextBLASId |-> FirstId, nextTLASId |-> FirstId,
              geometries |-> EmptyMap, blases |-> EmptyMap, tlases |-> EmptyMap,
              built |-> EmptyMap],
     backend |-> NoBackend]

\* No handler is in progress: the locals of none.
NoFrame ==
    [op |-> "idle", tlasId |-> 0, node |-> NullHandle, copy |-> NullHandle,
     rest |-> << >>, instances |-> << >>]

\* ----------------------------------------------------------------- actions
\* The backend destroy method of each kind.
DestroyMethod == [geometry |-> "destroyGeometry", blas |-> "destroyBLAS",
                  tlas |-> "destroyTLAS"]
\* The native handles of kind k that the calls hand to the backend's destroy.
Destroys(calls, k) ==
    {calls[i].h : i \in {j \in DOMAIN calls : calls[j].m = DestroyMethod[k]}}

\* Installs the registry and the backend of an outcome; creation stops once
\* an allocator has handed out MaxCreates.
Install(r) ==
    /\ g_nextGeometryId' = r.reg.nextGeometryId
    /\ g_nextBLASId' = r.reg.nextBLASId
    /\ g_nextTLASId' = r.reg.nextTLASId
    /\ g_geometries' = r.reg.geometries
    /\ g_blases' = r.reg.blases
    /\ g_tlases' = r.reg.tlases
    /\ tlasBuilt' = r.reg.built
    /\ g_rtBackend' = r.backend
    /\ retired' = [k \in Kinds |-> retired[k] \cup Destroys(r.calls, k)]
    /\ UNCHANGED platform

\* The histories record the id a call returned and the ids it destroyed.
Record(r) ==
    /\ Install(r)
    /\ issued' = [k \in Kinds |->
                    issued[k] \cup (IF r.ret.hasId /\ r.ret.type = k THEN {r.ret.id} ELSE {})]
    /\ destroyed' = [k \in Kinds |->
                       destroyed[k] \cup {h._id : h \in Destroys(r.calls, k)}]
    /\ created' = [k \in Kinds |->
                     created[k] + (IF r.ret.hasId /\ r.ret.type = k THEN 1 ELSE 0)]
    /\ UNCHANGED backendCount

\* A script call whose arguments are plain data, run to completion.
Call(r) ==
    /\ Record(r)
    /\ \A k \in Kinds : created'[k] <= MaxCreates
    /\ UNCHANGED <<frame, tlasRefs>>

IsSupported == Call(js_isSupported)
GetBackend == Call(js_getBackend)
CreateGeometry ==
    \E args \in GeometryArgs, p \in BackendCreate(g_rtBackend) : Call(js_createGeometry(args, p))
CreateBLAS ==
    \E args \in BLASArgs, p \in BackendCreate(g_rtBackend) : Call(js_createBLAS(args, p))
CreateTLAS ==
    \E args \in TLASArgs, p \in BackendCreate(g_rtBackend) : Call(js_createTLAS(args, p))
UpdateTLAS == \E args \in UpdateArgs : Call(js_updateTLAS(args))
TraceRays == \E args \in TraceArgs : Call(js_traceRays(args))
DestroyBLAS == \E args \in DestroyArgs : Call(js_destroyBLAS(args))
DestroyTLAS == \E args \in DestroyArgs : Call(js_destroyTLAS(args))
DestroyGeometry == \E args \in DestroyArgs : Call(js_destroyGeometry(args))

Initialize ==
    \E engine \in BOOLEAN :
        /\ engine => backendCount < MaxBackends
        /\ backendCount' = IF engine THEN backendCount + 1 ELSE backendCount
        /\ Install(initializeRTBindings(engine))
        /\ UNCHANGED <<issued, destroyed, created, frame, tlasRefs>>

Cleanup ==
    \E ot \in Orders(DOMAIN g_tlases), ob \in Orders(DOMAIN g_blases),
       og \in Orders(DOMAIN g_geometries) :
        /\ Install(cleanupRTBindings(ot, ob, og))
        /\ issued' = [k \in Kinds |-> {}]
        /\ destroyed' = [k \in Kinds |-> {}]
        /\ UNCHANGED <<backendCount, created, frame, tlasRefs>>

Init ==
    /\ platform \in {"none", "hw"}
    /\ g_rtBackend = NoBackend
    /\ backendCount = 0
    /\ g_nextGeometryId = 1
    /\ g_nextBLASId = 1
    /\ g_nextTLASId = 1
    /\ g_geometries = EmptyMap
    /\ g_blases = EmptyMap
    /\ g_tlases = EmptyMap
    /\ tlasBuilt = EmptyMap
    /\ issued = [k \in Kinds |-> {}]
    /\ destroyed = [k \in Kinds |-> {}]
    /\ retired = [k \in Kinds |-> {}]
    /\ created = [k \in Kinds |-> 0]
    /\ frame = NoFrame
    /\ tlasRefs = EmptyMap

Next ==
    \/ IsSupported
    \/ GetBackend
    \/ CreateGeometry
    \/ CreateBLAS
    \/ CreateTLAS
    \/ UpdateTLAS
    \/ TraceRays
    \/ DestroyBLAS
    \/ DestroyTLAS
    \/ DestroyGeometry
    \/ Initialize
    \/ Cleanup

Spec == Init /\ [][Next]_vars

\* ------------------------------------------------------ reading an outcome
\* The three tables and the three allocators of a registry, by kind.
TableOf(reg) == [geometry |-> reg.geometries, blas |-> reg.blases, tlas |-> reg.tlases]
AllocatorOf(reg) ==
    [geometry |-> reg.nextGeometryId, blas |-> reg.nextBLASId, tlas |-> reg.nextTLASId]
\* The call left every table and every allocator as it found them.
Untouched(r) ==
    /\ TableOf(r.reg) = TableOf(Registry)
    /\ AllocatorOf(r.reg) = AllocatorOf(Registry)
\* The ids of kind k issued and not destroyed since.
Live(k) == issued[k] \ destroyed[k]
\* The outcome of the destroy entry point of kind k.
DestroyOutcome(k, args) ==
    CASE k = "geometry" -> js_destroyGeometry(args)
      [] k = "blas" -> js_destroyBLAS(args)
      [] k = "tlas" -> js_destroyTLAS(args)
\* Every outcome the create entry point of kind k can have in this state.
CreateOutcomes(k) ==
    CASE k = "geometry" ->
            {js_createGeometry(a, p) : a \in GeometryArgs, p \in BackendCreate(g_rtBackend)}
      [] k = "blas" ->
            {js_createBLAS(a, p) : a \in BLASArgs, p \in BackendCreate(g_rtBackend)}
      [] k = "tlas" ->
            {js_createTLAS(a, p) : a \in TLASArgs, p \in BackendCreate(g_rtBackend)}
\* Every outcome of a create call whose backend method returns a null handle.
FailedCreateOutcomes(k) ==
    CASE k = "geometry" -> {js_createGeometry(a, Null) : a \in GeometryArgs}
      [] k = "blas" -> {js_createBLAS(a, Null) : a \in BLASArgs}
      [] k = "tlas" -> {js_createTLAS(a, Null) : a \in TLASArgs}
\* A well-formed createGeometry call: one triangle, no indices.
TriangleArgs ==
    <<[isObject |-> TRUE, vertices |-> RawBuffer(36), indices |-> JSUndefinedValue,
       vertexStride |-> Undefined, vertexOffset |-> Undefined]>>

\* ---------------------------------------------------------------- claims
\* C1: within a run of create and destroy calls (no cleanup in between), the
\* id a successful create of a kind returns is larger than every id of that
\* kind returned before, whether or not the earlier resource was destroyed:
\* ids are strictly increasing and none is returned twice.
C1_IdsStrictlyIncrease ==
    \A k \in Kinds : \A r \in CreateOutcomes(k) :
        r.ret # JSNull =>
            /\ r.ret.type = k
            /\ r.ret.hasId
            /\ \A i \in issued[k] : i < r.ret.id

\* Two ids of every kind were issued, the first of the geometries destroyed.
C1_Witness ==
    /\ \A k \in Kinds : issued[k] = {1, 2}
    /\ destroyed.geometry = {1}

\* C2: an id is registered in the table of its kind exactly when a create
\* returned it (the backend having returned a non-null handle) and it has not
\* been destroyed or cleaned up since; a create whose backend method returns a
\* null handle registers nothing.
C2_RegisteredIffCreatedAndLive ==
    \A k \in Kinds :
        /\ DOMAIN TableOf(Registry)[k] = Live(k)
        /\ \A id \in DOMAIN TableOf(Registry)[k] :
              /\ TableOf(Registry)[k][id]._handle # Null
              /\ TableOf(Registry)[k][id]._id = id
        /\ \A r \in FailedCreateOutcomes(k) : r.ret = JSNull /\ Untouched(r)
        /\ \A r \in CreateOutcomes(k) :
              r.ret # JSNull =>
                  DOMAIN TableOf(r.reg)[k] = DOMAIN TableOf(Registry)[k] \cup {r.ret.id}

\* BLAS 1 was created and destroyed, BLAS 2 is registered, and a createBLAS
\* that reaches the backend and gets a null handle back registers nothing.
C2_Witness ==
    /\ DOMAIN g_blases = {2}
    /\ destroyed.blas = {1}
    /\ \E r \in FailedCreateOutcomes("blas") : r.calls # << >> /\ Untouched(r)

\* C3: while there is no backend or its isSupported() is false, every create
\* call returns null, invokes no backend method, and leaves tables and
\* allocators unchanged.
C3_UnsupportedCreatesNothing ==
    (g_rtBackend.kind = "null" \/ ~isSupported(g_rtBackend)) =>
        \A k \in Kinds : \A r \in CreateOutcomes(k) :
            r.ret = JSNull /\ r.calls = << >> /\ Untouched(r)

\* The stub backend is installed and a well-formed createGeometry is refused.
C3_Witness ==
    /\ g_rtBackend.kind = "stub"
    /\ js_createGeometry(TriangleArgs, Null).ret = JSNull
    /\ js_createGeometry(TriangleArgs, Null).lines = <<NotAvailable("createGeometry")>>

\* C4: destroy is idempotent.  The first destroy of a registered id removes
\* exactly that entry, touches nothing else and forwards exactly one destroy
\* call, with that entry's native handle, to the backend; a destroy of an id
\* that was already destroyed or was never issued changes nothing and invokes
\* no backend method.
C4_DestroyIdempotent ==
    \A k \in Kinds : \A o \in HandleObjs :
        LET r == DestroyOutcome(k, <<o>>)
            id == IdOf(o)
            before == TableOf(Registry)
            after == TableOf(r.reg)
        IN IF id \in Live(k)
           THEN /\ DOMAIN after[k] = DOMAIN before[k] \ {id}
                /\ \A j \in DOMAIN after[k] : after[k][j] = before[k][j]
                /\ \A other \in Kinds \ {k} : after[other] = before[other]
                /\ AllocatorOf(r.reg) = AllocatorOf(Registry)
                /\ r.calls = <<BCall(DestroyMethod[k], before[k][id], << >>)>>
           ELSE r.calls = << >> /\ Untouched(r)

\* TLAS 1 was destroyed while TLAS 2 is registered; destroying 1 again does
\* nothing and destroying 2 forwards one call.
C4_Witness ==
    /\ destroyed.tlas = {1}
    /\ DOMAIN g_tlases = {2}
    /\ js_destroyTLAS(<<createTLASJS(1)>>).calls = << >>
    /\ Len(js_destroyTLAS(<<createTLASJS(2)>>).calls) = 1

\* C5: createTLAS over an array in which some instance, at any position,
\* names a BLAS id that was destroyed or never issued fails as a whole: it
\* returns null, invokes no backend method (not even with the instances that
\* did resolve), registers nothing and consumes no id.
C5_CreateTLASAllOrNothing ==
    \A args \in TLASArgs : \A p \in BackendCreate(g_rtBackend) :
        (/\ args # << >>
         /\ args[1].isArray
         /\ \E i \in DOMAIN args[1].elems : IdOf(args[1].elems[i].blas) \notin Live("blas"))
        => LET r == js_createTLAS(args, p)
           IN r.ret = JSNull /\ r.calls = << >> /\ Untouched(r)

\* With a supporting backend, an array whose first instance resolves and
\* whose second names a destroyed BLAS is refused.
C5_Witness ==
    /\ isSupported(g_rtBackend)
    /\ \E args \in TLASArgs :
          /\ args # << >>
          /\ Len(args[1].elems) = 2
          /\ IdOf(args[1].elems[1].blas) \in Live("blas")
          /\ IdOf(args[1].elems[2].blas) \in destroyed.blas
          /\ js_createTLAS(args, g_rtBackend.inst).ret = JSNull

\* C6: createBLAS over an array in which some element, at any position, names
\* a geometry id that was destroyed or never issued fails as a whole: it
\* returns null, never invokes the backend's createBLAS with the elements that
\* did resolve, registers nothing and consumes no id.
C6_CreateBLASAllOrNothing ==
    \A args \in BLASArgs : \A p \in BackendCreate(g_rtBackend) :
        (/\ args # << >>
         /\ args[1].isArray
         /\ \E i \in DOMAIN args[1].elems : IdOf(args[1].elems[i]) \notin Live("geometry"))
        => LET r == js_createBLAS(args, p)
           IN r.ret = JSNull /\ r.calls = << >> /\ Untouched(r)

\* With a supporting backend, an array whose first element resolves and whose
\* second has no _id at all is refused.
C6_Witness ==
    /\ isSupported(g_rtBackend)
    /\ \E args \in BLASArgs :
          /\ args # << >>
          /\ Len(args[1].elems) = 2
          /\ IdOf(args[1].elems[1]) \in Live("geometry")
          /\ args[1].elems[2] = JSUndefined
          /\ js_createBLAS(args, g_rtBackend.inst).ret = JSNull

\* C7: a handle object minted for one kind (its id was issued for that kind)
\* and passed where another kind is expected is treated as unresolved: the
\* destroy of the other kind does nothing, and createBLAS, createTLAS,
\* updateTLAS and traceRays given it as element, as an instance's blas or as
\* the tlas fail without a backend call; whatever resource of the expected
\* kind shares its numeric id is neither used nor destroyed.
C7_WrongKindUnresolved ==
    \A o \in HandleObjs :
        (o.hasId /\ o.id \in issued[o.type]) =>
            /\ \A k \in Kinds \ {o.type} :
                  LET r == DestroyOutcome(k, <<o>>)
                  IN r.calls = << >> /\ Untouched(r)
            /\ o.type # "geometry" =>
                  \A args \in BLASArgs : \A p \in BackendCreate(g_rtBackend) :
                      (args # << >> /\ \E i \in DOMAIN args[1].elems : args[1].elems[i] = o)
                      => LET r == js_createBLAS(args, p)
                         IN r.ret = JSNull /\ r.calls = << >>
            /\ o.type # "blas" =>
                  \A args \in TLASArgs : \A p \in BackendCreate(g_rtBackend) :
                      (args # << >> /\ \E i \in DOMAIN args[1].elems : args[1].elems[i].blas = o)
                      => LET r == js_createTLAS(args, p)
                         IN r.ret = JSNull /\ r.calls = << >>
            /\ o.type # "tlas" =>
                  /\ \A args \in UpdateArgs :
                        (args # << >> /\ args[1] = o) => js_updateTLAS(args).calls = << >>
                  /\ \A args \in TraceArgs :
                        (args # << >> /\ args[1].tlas = o) => js_traceRays(args).calls = << >>

\* C8 as stated: across create, destroy, update, trace, cleanup and initialize
\* calls, the id of a resource that was destroyed (explicitly or by cleanup)
\* never resolves to a resource again.
C8_DestroyedNeverResolves ==
    \A k \in Kinds : \A h \in retired[k] : h._id \notin DOMAIN TableOf(Registry)[k]

\* C8, amended: until the next cleanup, the id of a destroyed resource stays
\* unresolvable: it is in no table, no create returns it again, and destroy,
\* updateTLAS and traceRays given a handle object with that id invoke no
\* backend method.  (cleanup resets the allocators, so after cleanup and
\* initialize the ids are issued anew.)
C8_DestroyedUnresolvedUntilCleanup ==
    \A k \in Kinds : \A id \in destroyed[k] :
        /\ id \notin DOMAIN TableOf(Registry)[k]
        /\ \A r \in CreateOutcomes(k) : r.ret # JSNull => r.ret.id # id
        /\ DestroyOutcome(k, <<Wrapper(k, id)>>).calls = << >>
        /\ k = "tlas" =>
              /\ \A args \in UpdateArgs :
                    (args # << >> /\ args[1] = Wrapper(k, id))
                    => js_updateTLAS(args).calls = << >>
              /\ \A args \in TraceArgs :
                    (args # << >> /\ args[1].tlas = Wrapper(k, id))
                    => js_traceRays(args).calls = << >>

\* Geometry 1 was destroyed and geometry 2 created afterwards (the allocator
\* has moved past both); TLAS 1 was destroyed as well.
C8_Witness ==
    /\ destroyed.geometry = {1}
    /\ DOMAIN g_geometries = {2}
    /\ destroyed.tlas = {1}
    /\ isSupported(g_rtBackend)

\* The number of destroy calls in `calls` that hand over the native handle h.
DestroyCount(calls, k, h) ==
    Cardinality({i \in DOMAIN calls : calls[i].m = DestroyMethod[k] /\ calls[i].h = h})

\* C9: cleanup leaves a clean slate: the three tables empty, the three
\* allocators at their start value, no backend.  Each resource registered
\* when cleanup began is handed to the backend's destroy exactly once, no
\* other destroy is made, and all of it happens before the backend is
\* discarded.
C9_CleanupCleanSlate ==
    \A ot \in Orders(DOMAIN g_tlases), ob \in Orders(DOMAIN g_blases),
       og \in Orders(DOMAIN g_geometries) :
        LET r == cleanupRTBindings(ot, ob, og)
            before == TableOf(Registry)
            n == Len(r.calls)
        IN /\ TableOf(r.reg) = [k \in Kinds |-> EmptyMap]
           /\ AllocatorOf(r.reg) = [k \in Kinds |-> 1]
           /\ r.backend = NoBackend
           /\ \A k \in Kinds : \A id \in DOMAIN before[k] :
                 DestroyCount(r.calls, k, before[k][id]) = 1
           /\ \A i \in DOMAIN r.calls :
                 IF r.calls[i].m = "~IRTBackend"
                 THEN i = n
                 ELSE \E k \in Kinds :
                         /\ r.calls[i].m = DestroyMethod[k]
                         /\ \E id \in DOMAIN before[k] : r.calls[i].h = before[k][id]
           /\ g_rtBackend.kind # "null" => n > 0 /\ r.calls[n].m = "~IRTBackend"

\* Cleanup with a resource of every kind registered: three destroy calls and
\* the discard of the backend.
C9_Witness ==
    /\ \A k \in Kinds : DOMAIN TableOf(Registry)[k] # {}
    /\ \E ot \in Orders(DOMAIN g_tlases), ob \in Orders(DOMAIN g_blases),
          og \in Orders(DOMAIN g_geometries) :
          Len(cleanupRTBindings(ot, ob, og).calls)
              = 1 + Cardinality(DOMAIN g_tlases) + Cardinality(DOMAIN g_blases)
                  + Cardinality(DOMAIN g_geometries)

\* C10: updateTLAS never forwards to the backend an instance count different
\* from the count the TLAS was built with; a call whose count differs is
\* rejected without a backend call.
C10_UpdateCountMatchesBuild ==
    \A args \in UpdateArgs :
        LET r == js_updateTLAS(args)
        IN \A i \in DOMAIN r.calls :
              r.calls[i].m = "updateTLAS"
              => Len(r.calls[i].args) = tlasBuilt[r.calls[i].h._id]

\* The error kind of a failed create outcome, read off what the call did: the
\* backend was asked and returned a null handle (BackendFailure), or the
\* binding refused with one of its own diagnostics.
ErrorKind(r) ==
    IF r.calls # << >> THEN "BackendFailure"
    ELSE IF r.lines[1].msg = "Hardware ray tracing not available" THEN "Unsupported"
    ELSE IF r.lines[1].msg \in {"Invalid geometry at index", "Invalid BLAS at instance"}
         THEN "UnresolvedReference"
    ELSE "InvalidInput"

\* C11: every failing create call, whatever its error kind (Unsupported,
\* InvalidInput, UnresolvedReference, BackendFailure), leaves the three tables
\* and the three id allocators exactly as they were; a failed create does not
\* consume an id.
C11_FailedCreateChangesNothing ==
    \A k \in Kinds : \A r \in CreateOutcomes(k) :
        r.ret = JSNull =>
            /\ ErrorKind(r) \in {"Unsupported", "InvalidInput", "UnresolvedReference",
                                 "BackendFailure"}
            /\ Untouched(r)

\* A supporting backend with resources registered and the allocators past
\* their start value, where createTLAS can fail as InvalidInput, as
\* UnresolvedReference and as BackendFailure.
C11_Witness ==
    /\ isSupported(g_rtBackend)
    /\ g_nextTLASId = 2
    /\ g_blases # EmptyMap
    /\ {ErrorKind(r) : r \in {x \in CreateOutcomes("tlas") : x.ret = JSNull}}
          = {"InvalidInput", "UnresolvedReference", "BackendFailure"}

\* C12: a destroy call changes only the table of its own kind and no id
\* allocator: destroyTLAS leaves every BLAS and geometry entry registered,
\* destroyGeometry leaves every BLAS registered, and every registered BLAS,
\* whether or not the geometries it was built from are still registered, is
\* accepted by a later createTLAS.
C12_DestroyTouchesOwnKindOnly ==
    /\ \A k \in Kinds : \A args \in DestroyArgs :
          LET r == DestroyOutcome(k, args)
          IN /\ \A other \in Kinds \ {k} : TableOf(r.reg)[other] = TableOf(Registry)[other]
             /\ AllocatorOf(r.reg) = AllocatorOf(Registry)
    /\ \A id \in DOMAIN g_blases :
          LET r == js_createTLAS(<<[isArray |-> TRUE,
                                    elems |-> <<PlainInstance(createBLASJS(id))>>]>>,
                                 g_rtBackend.inst)
          IN /\ r.ret = createTLASJS(g_nextTLASId)
             /\ r.calls[1].args[1].blas = g_blases[id]

\* A BLAS is registered although every geometry issued since the last
\* cleanup, the ones it was built from among them, has been destroyed; a TLAS
\* was destroyed as well.
C12_Witness ==
    /\ g_blases # EmptyMap
    /\ issued.geometry # {}
    /\ Live("geometry") = {}
    /\ destroyed.tlas # {}

\* The native handles of kind k made by the backend instance now installed:
\* those still registered and those already handed to a destroy.
MadeByCurrentBackend(k) ==
    {h \in {TableOf(Registry)[k][id] : id \in DOMAIN TableOf(Registry)[k]} \cup retired[k] :
        h._handle = g_rtBackend.inst}

\* C13: the three kinds have independent allocators: a successful create of
\* one kind never changes the next id of another kind, and after initialize
\* the first successful create of each kind returns id 1, however many
\* resources of the other kinds were created before it.
C13_IndependentAllocatorsFromOne ==
    /\ \A k \in Kinds : \A r \in CreateOutcomes(k) : \A other \in Kinds \ {k} :
          AllocatorOf(r.reg)[other] = AllocatorOf(Registry)[other]
    /\ \A k \in Kinds :
          (g_rtBackend.kind # "null" /\ MadeByCurrentBackend(k) = {})
          => \A r \in CreateOutcomes(k) : r.ret # JSNull => r.ret.id = 1

\* C14: isSupported() and getBackend() are pure queries: in every state,
\* before initialize and after cleanup included, they change no table, no
\* allocator and nothing of the backend, and with no backend they return
\* false and "none".
C14_QueriesArePure ==
    /\ \A r \in {js_isSupported, js_getBackend} :
          /\ r.reg = Registry
          /\ r.backend = g_rtBackend
          /\ r.calls = << >>
    /\ g_rtBackend.kind = "null" =>
          /\ js_isSupported.ret = JSBoolean(FALSE)
          /\ js_getBackend.ret = JSString("none")
    /\ g_rtBackend.kind # "null" =>
          /\ js_isSupported.ret = JSBoolean(isSupported(g_rtBackend))
          /\ js_getBackend.ret = JSString(getBackend(g_rtBackend))

\* After a cleanup that followed work with a supporting backend there is no
\* backend, and the queries answer false and "none".
C14_Witness ==
    /\ g_rtBackend.kind = "null"
    /\ backendCount >= 1
    /\ platform = "hw"
    /\ retired.geometry # {}
    /\ js_isSupported.ret = JSBoolean(FALSE)
    /\ js_getBackend.ret = JSString("none")

\* The argument vector holding one empty script array.
EmptyArrayArgs == <<[isArray |-> TRUE, elems |-> << >>]>>

\* C15: createBLAS and createTLAS called with an empty array return null
\* without invoking the backend and without changing any table or allocator.
C15_EmptyArrayRefused ==
    \A p \in BackendCreate(g_rtBackend) :
        \A r \in {js_createBLAS(EmptyArrayArgs, p), js_createTLAS(EmptyArrayArgs, p)} :
            r.ret = JSNull /\ r.calls = << >> /\ Untouched(r)

\* With a supporting backend and a geometry and a BLAS registered, both calls
\* are refused for the empty array and nothing else.
C15_Witness ==
    /\ isSupported(g_rtBackend)
    /\ g_geometries # EmptyMap
    /\ g_blases # EmptyMap
    /\ js_createBLAS(EmptyArrayArgs, g_rtBackend.inst).lines
          = <<Line("createBLAS", "Empty geometry array", -1)>>
    /\ js_createTLAS(EmptyArrayArgs, g_rtBackend.inst).lines
          = <<Line("createTLAS", "Empty instance array", -1)>>

\* C16: updateTLAS and traceRays whose tlas names a destroyed or never issued
\* id are absorbed: the backend is not invoked and no table or allocator
\* changes; updateTLAS with any instance whose blas does not resolve makes no
\* backend call either.
C16_UnresolvedUpdateTraceAbsorbed ==
    /\ \A args \in UpdateArgs :
          LET r == js_updateTLAS(args)
          IN /\ Untouched(r)
             /\ (args # << >> /\ IdOf(args[1]) \notin Live("tlas")) => r.calls = << >>
             /\ (Len(args) = 2 /\ \E i \in DOMAIN args[2].elems :
                                     IdOf(args[2].elems[i].blas) \notin Live("blas"))
                => r.calls = << >>
    /\ \A args \in TraceArgs :
          LET r == js_traceRays(args)
          IN /\ Untouched(r)
             /\ (args # << >> /\ IdOf(args[1].tlas) \notin Live("tlas")) => r.calls = << >>

\* TLAS 1 was destroyed, TLAS 2 and a BLAS are registered: an update and a
\* trace of TLAS 1 are refused as invalid TLAS, and an update of TLAS 2 with
\* an instance without a BLAS as invalid BLAS.
C16_Witness ==
    /\ isSupported(g_rtBackend)
    /\ destroyed.tlas = {1}
    /\ DOMAIN g_tlases = {2}
    /\ g_blases # EmptyMap
    /\ js_updateTLAS(<<createTLASJS(1), [isArray |-> TRUE, elems |-> << >>]>>).lines
          = <<Line("updateTLAS", "Invalid TLAS", -1)>>
    /\ \E args \in TraceArgs :
          /\ args # << >>
          /\ args[1].tlas = createTLASJS(1)
          /\ js_traceRays(args).lines = <<Line("traceRays", "Invalid TLAS", -1)>>
    /\ js_updateTLAS(<<createTLASJS(2),
                       [isArray |-> TRUE, elems |-> <<PlainInstance(JSUndefined)>>]>>).lines
          = <<Line("updateTLAS", "Invalid BLAS at instance", 0)>>

\* The 4x4 identity: entries 0, 5, 10 and 15 (counted from 0) are 1.
IdentityMatrix == <<1, 0, 0, 0,  0, 1, 0, 0,  0, 0, 1, 0,  0, 0, 0, 1>>
\* What C17 expects the backend to receive for the transform value t.
ExpectedTransform(t) ==
    IF t.tag = "buffer" /\ Len(t.elems) >= 16 THEN SubSeq(t.elems, 1, 16)
    ELSE IdentityMatrix
\* Every instance a call hands to the backend's method m carries the
\* transform expected for the instance object at the same position.
TransformsAsExpected(r, m, elems) ==
    \A c \in DOMAIN r.calls :
        r.calls[c].m = m =>
            /\ Len(r.calls[c].args) = Len(elems)
            /\ \A i \in DOMAIN elems :
                  r.calls[c].args[i].transform = ExpectedTransform(elems[i].transform)

\* C17: for every instance marshaled by createTLAS or updateTLAS whose
\* transform is absent or has fewer than 16 elements (any length 0..15), the
\* transform handed to the backend is exactly the identity matrix; with 16 or
\* more elements the first 16 supplied values are handed over unchanged.
C17_TransformIdentityOrCopied ==
    /\ \A args \in TLASArgs : \A p \in BackendCreate(g_rtBackend) :
          args # << >> => TransformsAsExpected(js_createTLAS(args, p), "createTLAS",
                                               args[1].elems)
    /\ \A args \in UpdateArgs :
          Len(args) = 2 => TransformsAsExpected(js_updateTLAS(args), "updateTLAS",
                                                args[2].elems)

\* BLAS 1 and TLAS 1 are registered, and createTLAS and updateTLAS reach the
\* backend with a 15-float transform (identity) and a 17-float one (copied).
C17_Witness ==
    /\ 1 \in DOMAIN g_blases
    /\ 1 \in DOMAIN g_tlases
    /\ \A n \in {15, 17} :
          LET arr == [isArray |-> TRUE,
                      elems |-> <<[PlainInstance(Wrapper("blas", 1))
                                      EXCEPT !.transform = Float32Array(Ramp(n))]>>]
              made == js_createTLAS(<<arr>>, g_rtBackend.inst).calls
              upd == js_updateTLAS(<<createTLASJS(1), arr>>).calls
          IN /\ Len(made) = 1 /\ Len(upd) = 1
             /\ made[1].args[1].transform = ExpectedTransform(Float32Array(Ramp(n)))
             /\ upd[1].args[1].transform = ExpectedTransform(Float32Array(Ramp(n)))

\* The value of an option field: what the caller supplied, or the default d
\* when the field is absent or undefined.
SuppliedOr(v, d) == IF v = Undefined THEN d ELSE v
\* Every instance a call hands to the backend's method m carries the mask,
\* flags and instanceId of the instance object at the same position.
OptionFieldsHonoured(r, m, elems) ==
    \A c \in DOMAIN r.calls :
        r.calls[c].m = m =>
            \A i \in DOMAIN elems :
                /\ r.calls[c].args[i].mask = SuppliedOr(elems[i].mask, 255)
                /\ r.calls[c].args[i].flags = SuppliedOr(elems[i].flags, 0)
                /\ r.calls[c].args[i].instanceId = SuppliedOr(elems[i].instanceId, 0)

\* C18: option fields default only when absent: for each TLAS instance the
\* mask, flags and instanceId handed to the backend equal the values the
\* caller supplied, and equal 0xFF, 0 and 0 only when the field is absent or
\* undefined.
C18_InstanceFieldsAsSupplied ==
    /\ \A args \in TLASArgs : \A p \in BackendCreate(g_rtBackend) :
          args # << >> => OptionFieldsHonoured(js_createTLAS(args, p), "createTLAS",
                                               args[1].elems)
    /\ \A args \in UpdateArgs :
          Len(args) = 2 => OptionFieldsHonoured(js_updateTLAS(args), "updateTLAS",
                                                args[2].elems)

\* The descriptors a createGeometry outcome hands to the backend.
Descriptors(r) ==
    {r.calls[c].args[1] : c \in {x \in DOMAIN r.calls : r.calls[x].m = "createGeometry"}}

\* C19: createGeometry with an options object that omits vertexStride and
\* vertexOffset hands the backend a descriptor with vertexStride 12 and
\* vertexOffset 0, and for every vertex buffer the descriptor's vertexCount is
\* the buffer's float count (byte length divided by 4) divided by 3, both
\* integer divisions.
C19_GeometryDescriptorDefaults ==
    \A args \in GeometryArgs : \A p \in BackendCreate(g_rtBackend) :
        \A d \in Descriptors(js_createGeometry(args, p)) :
            /\ d.vertexCount = (args[1].vertices.bytes \div 4) \div 3
            /\ args[1].vertexStride = Undefined => d.vertexStride = 12
            /\ args[1].vertexOffset = Undefined => d.vertexOffset = 0

\* With a supporting backend a 40-byte vertex buffer (10 floats) reaches the
\* backend as 3 vertices with stride 12 and offset 0, and an 8-byte one as 0.
C19_Witness ==
    /\ isSupported(g_rtBackend)
    /\ \E args \in GeometryArgs :
          /\ args # << >>
          /\ args[1].vertices = RawBuffer(40)
          /\ args[1].vertexStride = Undefined
          /\ \E d \in Descriptors(js_createGeometry(args, g_rtBackend.inst)) :
                d.vertexCount = 3 /\ d.vertexStride = 12 /\ d.vertexOffset = 0
    /\ \E args \in GeometryArgs :
          /\ args # << >>
          /\ args[1].vertices = RawBuffer(8)
          /\ \E d \in Descriptors(js_createGeometry(args, g_rtBackend.inst)) :
                d.vertexCount = 0

\* A script value from which no typed buffer can be extracted: absent, not a
\* buffer, or a buffer of zero length.
ExtractionFails(v) == v.tag # "buffer" \/ v.bytes = 0

\* C20: a typed buffer extraction failure fails the whole createGeometry
\* call: when the vertices buffer is absent or zero-length, or when an
\* indices buffer is supplied but is zero-length or not a buffer,
\* createGeometry returns null, does not invoke the backend and registers
\* nothing.
C20_ExtractionFailureFailsCall ==
    \A args \in GeometryArgs : \A p \in BackendCreate(g_rtBackend) :
        (/\ args # << >>
         /\ args[1].isObject
         /\ \/ ExtractionFails(args[1].vertices)
            \/ args[1].indices.tag # "undefined" /\ ExtractionFails(args[1].indices))
        => LET r == js_createGeometry(args, p)
           IN r.ret = JSNull /\ r.calls = << >> /\ Untouched(r)

\* The backend methods that build, refit or trace.
WorkMethods == {"createGeometry", "createBLAS", "createTLAS", "updateTLAS", "traceRays"}
\* Every outcome a create, update or trace call can have in this state.
WorkOutcomes ==
    UNION {CreateOutcomes(k) : k \in Kinds}
    \cup {js_updateTLAS(a) : a \in UpdateArgs}
    \cup {js_traceRays(a) : a \in TraceArgs}

\* C21: on a machine where createRTBackend returns the stub (the only backend
\* of this source tree), after any sequence of initialize, create, update,
\* trace, destroy and cleanup calls the three tables are empty, the three
\* allocators are at 1, and no create, update or trace call invokes a create,
\* update or trace method of the backend.
C21_StubKeepsRegistryEmpty ==
    platform = "none" =>
        /\ \A k \in Kinds :
              /\ TableOf(Registry)[k] = EmptyMap
              /\ AllocatorOf(Registry)[k] = FirstId
        /\ \A r \in WorkOutcomes :
              \A i \in DOMAIN r.calls : r.calls[i].m \notin WorkMethods

\* The second stub of the run is installed (initialize, cleanup, initialize)
\* and a well-formed createGeometry is turned away before the backend.
C21_Witness ==
    /\ platform = "none"
    /\ g_rtBackend = [kind |-> "stub", inst |-> 2]
    /\ js_createGeometry(TriangleArgs, Null).calls = << >>
    /\ g_nextGeometryId = FirstId

\* The create, update and trace outcomes of this state that failed: a create
\* that returned null, an update or trace that returned before the backend
\* call.
FailedWorkOutcomes ==
    {r \in UNION {CreateOutcomes(k) : k \in Kinds} : r.ret = JSNull}
    \cup {r \in {js_updateTLAS(a) : a \in UpdateArgs} \cup {js_traceRays(a) : a \in TraceArgs} :
            r.calls = << >>}

AllOutcomes ==
    WorkOutcomes
    \cup {DestroyOutcome(k, a) : k \in Kinds, a \in DestroyArgs}
    \cup {cleanupRTBindings(ot, ob, og) :
            ot \in Orders(DOMAIN g_tlases), ob \in Orders(DOMAIN g_blases),
            og \in Orders(DOMAIN g_geometries)}
\* The resource handles a sequence of backend calls passes to the backend.
HandlesPassed(calls) ==
    {calls[i].h : i \in {j \in DOMAIN calls : calls[j].m # "~IRTBackend"}}
    \ {NullHandle}

\* C25: every registry entry was made by the backend instance now installed:
\* after any sequence of calls, initialize called again while resources are
\* registered included, no table holds a native handle of a discarded backend
\* instance, and no call passes such a handle to another backend instance.
C25_EntriesOfActiveBackend ==
    /\ \A k \in Kinds : \A id \in DOMAIN TableOf(Registry)[k] :
          TableOf(Registry)[k][id]._handle = g_rtBackend.inst
    /\ \A r \in AllOutcomes : \A h \in HandlesPassed(r.calls) :
          h._handle = g_rtBackend.inst

\* Every outcome a destroy call or cleanup can have in this state.
TeardownOutcomes ==
    {DestroyOutcome(k, a) : k \in Kinds, a \in DestroyArgs}
    \cup {cleanupRTBindings(ot, ob, og) :
            ot \in Orders(DOMAIN g_tlases), ob \in Orders(DOMAIN g_blases),
            og \in Orders(DOMAIN g_geometries)}

\* C27: over any sequence of create, destroy, cleanup and initialize calls a
\* native handle returned by a successful backend create is handed to the
\* backend's destroy of its kind at most once: no call hands over a handle
\* twice, and none hands over a handle that an earlier destroy or cleanup
\* already handed over.
C27_DestroyedAtMostOnce ==
    \A r \in TeardownOutcomes : \A k \in Kinds : \A h \in Destroys(r.calls, k) :
        /\ DestroyCount(r.calls, k, h) = 1
        /\ h \notin retired[k]

\* BLAS 1 went to the backend through destroyBLAS, BLAS 2 is registered, and
\* cleanup now hands over BLAS 2 only.
C27_Witness ==
    /\ retired.blas = {Handle(1, 1)}
    /\ DOMAIN g_blases = {2}
    /\ \E r \in TeardownOutcomes :
          /\ r.backend = NoBackend
          /\ Destroys(r.calls, "blas") = {g_blases[2]}

\* C28: updateTLAS and traceRays never change the registry: on the success
\* path and on every failure path the three tables and the three allocators
\* after the call equal those before it, and the backend pointer is the same.
C28_UpdateTraceLeaveRegistry ==
    \A r \in {js_updateTLAS(a) : a \in UpdateArgs} \cup {js_traceRays(a) : a \in TraceArgs} :
        /\ Untouched(r)
        /\ r.backend = g_rtBackend

\* TLAS 1 is registered along with both BLASes; an update of it with two
\* instances and a trace of it reach the backend, an update of it naming a
\* BLAS that does not resolve does not, and all three leave the registry alone.
C28_Witness ==
    /\ 1 \in DOMAIN g_tlases
    /\ DOMAIN g_blases = {1, 2}
    /\ \E a \in UpdateArgs :
          /\ Len(a) = 2 /\ Len(a[2].elems) = 2
          /\ js_updateTLAS(a).calls # << >> /\ Untouched(js_updateTLAS(a))
    /\ \E a \in UpdateArgs :
          /\ Len(a) = 2 /\ a[1] = Wrapper("tlas", 1) /\ a[2].isArray
          /\ js_updateTLAS(a).calls = << >> /\ Untouched(js_updateTLAS(a))
    /\ \E a \in TraceArgs :
          js_traceRays(a).calls # << >> /\ Untouched(js_traceRays(a))

\* C29: every geometry descriptor createGeometry hands to the backend has a
\* vertexCount of at least 1: a vertex buffer of 1 or 2 floats is refused as
\* invalid input and never reaches the backend as a zero-vertex descriptor.
C29_DescriptorHasVertices ==
    \A args \in GeometryArgs : \A p \in BackendCreate(g_rtBackend) :
        \A d \in Descriptors(js_createGeometry(args, p)) : d.vertexCount >= 1

\* ------------------------------------------- handlers interrupted by script
\* js_createTLAS, js_updateTLAS and js_traceRays read properties of script
\* objects (engine->getProperty) between their table lookups and their backend
\* call.  A property may be an accessor, and its getter is script code that
\* can call back into the bindings before the handler goes on.  The
\* specification SpecScript runs these three handlers one property read at a
\* time, on objects whose `transform`, `width` or `uniforms` property is such
\* an accessor; `frame` holds the locals of the handler in progress: the TLAS
\* id it looked up (tlasId) and what the table held for it (node), the handle
\* it copied into traceOptions (copy), the reads still to make (rest) and the
\* RTTLASInstance structs pushed so far (instances).

\* What a getter does besides returning the property's value.
NoCall == [op |-> "none", args |-> << >>]
NestedCalls ==
    {NoCall,
     [op |-> "destroyBLAS", args |-> <<Wrapper("blas", 1)>>],
     [op |-> "destroyTLAS", args |-> <<Wrapper("tlas", 1)>>]}
\* The outcome of the call a getter makes.
Nested(g) ==
    CASE g.op = "destroyBLAS" -> js_destroyBLAS(g.args)
      [] g.op = "destroyTLAS" -> js_destroyTLAS(g.args)
      [] OTHER -> Absorbed(JSUndefined, << >>, << >>)

\* Instance objects {blas, get transform() {...}}: the getter makes the call
\* g and returns undefined.
AccessorInstance(o, g) ==
    [blas |-> o, transform |-> JSUndefinedValue, instanceId |-> Undefined,
     mask |-> Undefined, flags |-> Undefined, getter |-> g]
ScriptInstances ==
    {AccessorInstance(Wrapper("blas", i), g) : i \in 1..MaxCreates, g \in NestedCalls}
ScriptArrays ==
    {[isArray |-> TRUE, elems |-> e] : e \in UNION {[1..n -> ScriptInstances] : n \in 0..MaxLen}}
    \cup {[isArray |-> FALSE, elems |-> << >>]}
\* Option objects {tlas, get width() {...}, get uniforms() {...}}.
ScriptTraceOptions ==
    {[isObject |-> TRUE, tlas |-> Wrapper("tlas", i), onWidth |-> w, onUniforms |-> u] :
        i \in 1..MaxCreates, w \in NestedCalls, u \in NestedCalls}
ScriptGeometryArrays ==
    {[isArray |-> TRUE, elems |-> <<Wrapper("geometry", i)>>] : i \in 1..MaxCreates}

\* What stands in freed memory.
Garbage == -2
\* tlasIt->second.  While the entry is in the table this is its handle.  Once
\* the entry was erased the iterator is invalid and the read is undefined: it
\* can yield what the node held, yield anything else, or trap.
Deref(table, f) ==
    IF f.tlasId \in DOMAIN table
    THEN {[trap |-> FALSE, h |-> table[f.tlasId]]}
    ELSE {[trap |-> FALSE, h |-> f.node],
          [trap |-> FALSE, h |-> Handle(Garbage, Garbage)],
          [trap |-> TRUE, h |-> NullHandle]}
\* The process is gone.
Trapped == [NoFrame EXCEPT !.op = "trapped"]

\* tlasRefs after a call: the entries of the TLASes still registered.
RefsAfter(r) == [t \in DOMAIN r.reg.tlases \cap DOMAIN tlasRefs |-> tlasRefs[t]]
\* A call, nested or not, installed with the backend-side references.
Step(r) == Record(r) /\ tlasRefs' = RefsAfter(r)
\* The BLAS ids of an instance vector.
BlasIds(instances) == {instances[i].blas._id : i \in DOMAIN instances}

\* js_createTLAS from the backend call on; p is the _handle it returns.
RegisterTLAS(instances, p) ==
    LET op == "createTLAS"
        calls == <<BCall(op, NullHandle, instances)>>
        id == g_nextTLASId
    IN IF ~Created(p) THEN
           Absorbed(JSNull, calls, BackendDiag(g_rtBackend, op))
       ELSE
           Effect(createTLASJS(id), calls, BackendDiag(g_rtBackend, op),
                  [Registry EXCEPT
                      !.nextTLASId = NextId(id),
                      !.tlases = MapPut(@, id, Handle(p, id)),
                      !.built = MapPut(@, id, Len(instances))])
\* g_rtBackend->updateTLAS(tlasIt->second, ...) and g_rtBackend->traceRays(
\* traceOptions), with h the TLAS handle passed.
Dispatch(f, h) ==
    Absorbed(JSUndefined, <<BCall(f.op, h, f.instances)>>, BackendDiag(g_rtBackend, f.op))

\* Everything but the frame and the backend-side references.
programVars ==
    <<platform, g_rtBackend, backendCount, g_nextGeometryId, g_nextBLASId,
      g_nextTLASId, g_geometries, g_blases, g_tlases, tlasBuilt,
      issued, destroyed, created, retired>>
Idle == frame = NoFrame

\* The host initializes the bindings at startup, before any script runs.
ScriptInitialize ==
    /\ Idle
    /\ g_rtBackend = NoBackend
    /\ backendCount' = backendCount + 1
    /\ Install(initializeRTBindings(TRUE))
    /\ UNCHANGED <<issued, destroyed, created, frame, tlasRefs>>
\* Calls with plain arguments, made by the script between two handlers.
ScriptCreateGeometry ==
    /\ Idle
    /\ \E p \in BackendCreate(g_rtBackend) : Call(js_createGeometry(TriangleArgs, p))
ScriptCreateBLAS ==
    /\ Idle
    /\ \E a \in ScriptGeometryArrays, p \in BackendCreate(g_rtBackend) :
          Call(js_createBLAS(<<a>>, p))
ScriptDestroyBLAS ==
    /\ Idle
    /\ \E i \in 1..MaxCreates : Call(js_destroyBLAS(<<Wrapper("blas", i)>>))
ScriptDestroyTLAS ==
    /\ Idle
    /\ \E i \in 1..MaxCreates : Step(js_destroyTLAS(<<Wrapper("tlas", i)>>))
    /\ UNCHANGED frame

\* js_createTLAS up to the loop: the availability, array and length checks.
BeginCreateTLAS ==
    /\ Idle
    /\ \E a \in ScriptArrays :
          IF Unavailable(g_rtBackend) \/ ~a.isArray \/ Len(a.elems) = 0
          THEN UNCHANGED vars
          ELSE /\ frame' = [NoFrame EXCEPT !.op = "createTLAS", !.rest = a.elems]
               /\ UNCHANGED <<programVars, tlasRefs>>

\* js_updateTLAS up to the loop: the checks and tlasIt = g_tlases.find(tlasId).
BeginUpdateTLAS ==
    /\ Idle
    /\ \E i \in 1..MaxCreates, a \in ScriptArrays :
          IF Unavailable(g_rtBackend) \/ i \notin DOMAIN g_tlases \/ ~a.isArray
          THEN UNCHANGED vars
          ELSE /\ frame' = [NoFrame EXCEPT !.op = "updateTLAS", !.tlasId = i,
                                           !.node = g_tlases[i], !.rest = a.elems]
               /\ UNCHANGED <<programVars, tlasRefs>>

\* One turn of the loop of js_createTLAS / js_updateTLAS: find the element's
\* BLAS and copy its handle into inst.blas, then read `transform` (the getter
\* runs) and `instanceId`, and push inst.
MarshalStep ==
    /\ frame.op \in {"createTLAS", "updateTLAS"}
    /\ frame.rest # << >>
    /\ LET o == Head(frame.rest) IN
       IF getBLASId(o.blas) \notin DOMAIN g_blases
       THEN /\ frame' = NoFrame
            /\ UNCHANGED <<programVars, tlasRefs>>
       ELSE /\ Step(Nested(o.getter))
            /\ frame' = [frame EXCEPT !.rest = Tail(@),
                                      !.instances = Append(@, MarshalInstance(o))]

\* js_createTLAS from g_rtBackend->createTLAS(...) to its return.
InvokeCreateTLAS ==
    /\ frame.op = "createTLAS"
    /\ frame.rest = << >>
    /\ \E p \in BackendCreate(g_rtBackend) :
          LET r == RegisterTLAS(frame.instances, p) IN
          /\ Record(r)
          /\ \A k \in Kinds : created'[k] <= MaxCreates
          /\ tlasRefs' = IF r.ret = JSNull THEN tlasRefs
                         ELSE MapPut(tlasRefs, r.ret.id, BlasIds(frame.instances))
    /\ frame' = NoFrame

\* g_rtBackend->updateTLAS(tlasIt->second, instances.data(), instances.size()).
InvokeUpdateTLAS ==
    /\ frame.op = "updateTLAS"
    /\ frame.rest = << >>
    /\ \E d \in Deref(g_tlases, frame) :
          /\ frame' = IF d.trap THEN Trapped ELSE NoFrame
          /\ tlasRefs' = IF frame.tlasId \in DOMAIN g_tlases /\ ~d.trap
                         THEN MapPut(tlasRefs, frame.tlasId, BlasIds(frame.instances))
                         ELSE tlasRefs
    /\ UNCHANGED programVars

\* js_traceRays up to tlasIt = g_tlases.find(tlasId).
BeginTraceRays ==
    /\ Idle
    /\ \E o \in ScriptTraceOptions :
          IF Unavailable(g_rtBackend) \/ ~o.isObject
             \/ getTLASId(o.tlas) \notin DOMAIN g_tlases
          THEN UNCHANGED vars
          ELSE /\ frame' = [NoFrame EXCEPT !.op = "traceRays",
                                           !.tlasId = getTLASId(o.tlas),
                                           !.node = g_tlases[getTLASId(o.tlas)],
                                           !.rest = <<o.onWidth, o.onUniforms>>]
               /\ UNCHANGED <<programVars, tlasRefs>>

\* The reads of width, height and outputTexture (the getter runs), then
\* traceOptions.tlas = tlasIt->second.
ReadDimensions ==
    /\ frame.op = "traceRays"
    /\ Len(frame.rest) = 2
    /\ LET r == Nested(frame.rest[1]) IN
       /\ Step(r)
       /\ \E d \in Deref(r.reg.tlases, frame) :
             frame' = IF d.trap THEN Trapped
                      ELSE [frame EXCEPT !.rest = Tail(@), !.copy = d.h]

\* The read of uniforms (the getter runs).
ReadUniforms ==
    /\ frame.op = "traceRays"
    /\ Len(frame.rest) = 1
    /\ Step(Nested(frame.rest[1]))
    /\ frame' = [frame EXCEPT !.rest = << >>]

\* g_rtBackend->traceRays(traceOptions).
InvokeTraceRays ==
    /\ frame.op = "traceRays"
    /\ frame.rest = << >>
    /\ frame' = NoFrame
    /\ UNCHANGED <<programVars, tlasRefs>>

NextScript ==
    \/ ScriptInitialize
    \/ ScriptCreateGeometry
    \/ ScriptCreateBLAS
    \/ ScriptDestroyBLAS
    \/ ScriptDestroyTLAS
    \/ BeginCreateTLAS
    \/ BeginUpdateTLAS
    \/ MarshalStep
    \/ InvokeCreateTLAS
    \/ InvokeUpdateTLAS
    \/ BeginTraceRays
    \/ ReadDimensions
    \/ ReadUniforms
    \/ InvokeTraceRays

SpecScript == Init /\ [][NextScript]_vars

\* The handler in progress has made its last property read and is about to
\* invoke the backend.
AtBackendCall(ops) == frame.op \in ops /\ frame.rest = << >>
\* The backend calls an updateTLAS or traceRays in progress can make now.
DispatchOutcomes ==
    IF frame.op = "updateTLAS"
    THEN {Dispatch(frame, d.h) : d \in {x \in Deref(g_tlases, frame) : ~x.trap}}
    ELSE IF frame.op = "traceRays" THEN {Dispatch(frame, frame.copy)}
    ELSE {}

\* C23: at the moment createTLAS or updateTLAS invokes the backend, every
\* instance it passes references a BLAS id that is registered at that moment,
\* with the handle the table holds for it - also when a script accessor read
\* during marshaling (on transform or instanceId) called destroyBLAS before
\* the backend call.
C23_InstancesRegisteredAtCall ==
    AtBackendCall({"createTLAS", "updateTLAS"}) =>
        \A i \in DOMAIN frame.instances :
            LET h == frame.instances[i].blas IN
            /\ h._id \in DOMAIN g_blases
            /\ g_blases[h._id] = h

\* C24: the TLAS entry updateTLAS and traceRays looked up at their start is
\* still registered when they hand its native handle to the backend: no
\* destroyTLAS run by a script accessor between the lookup and the backend
\* call lets the backend receive the handle of a TLAS that is no longer in
\* the table (or lets the handler read through an invalidated iterator).
C24_LookedUpTLASStillRegistered ==
    /\ frame # Trapped
    /\ AtBackendCall({"updateTLAS", "traceRays"}) =>
          /\ frame.tlasId \in DOMAIN g_tlases
          /\ \A r \in DispatchOutcomes : r.calls[1].h = g_tlases[frame.tlasId]

\* C26: referential integrity: in every reachable state each registered TLAS
\* references only BLAS ids that are still registered, so traceRays is never
\* dispatched for a TLAS one of whose instance BLASes has been destroyed.
C26_TLASReferencesRegistered ==
    /\ \A t \in DOMAIN g_tlases : tlasRefs[t] \subseteq DOMAIN g_blases
    /\ (AtBackendCall({"traceRays"}) /\ frame.tlasId \in DOMAIN g_tlases)
          => tlasRefs[frame.tlasId] \subseteq DOMAIN g_blases

\* ------------------------------------------------- an allocator wraps around
\* SpecWrap follows one allocator through all of its 2^IdBits values: the
\* script creates geometries, destroying some, until g_nextGeometryId++ has
\* wrapped around.
WrapInitialize ==
    /\ g_rtBackend = NoBackend
    /\ backendCount' = backendCount + 1
    /\ Install(initializeRTBindings(TRUE))
    /\ UNCHANGED <<issued, destroyed, created, frame, tlasRefs>>
WrapCreateGeometry ==
    \E p \in BackendCreate(g_rtBackend) :
        /\ Record(js_createGeometry(TriangleArgs, p))
        /\ created'.geometry <= 2 ^ IdBits
        /\ UNCHANGED <<frame, tlasRefs>>
WrapDestroyGeometry ==
    \E o \in {Wrapper("geometry", i) : i \in 0..(2 ^ IdBits - 1)} \cup {JSUndefined} :
        /\ Record(js_destroyGeometry(<<o>>))
        /\ UNCHANGED <<frame, tlasRefs>>

NextWrap ==
    \/ WrapInitialize
    \/ WrapCreateGeometry
    \/ WrapDestroyGeometry

SpecWrap == Init /\ [][NextWrap]_vars

\* C30: id 0 is never issued and never registered, the allocator being a
\* counter of IdBits bits that starts at 1 and is incremented by every
\* successful create; so a handle object with no _id, which reads as id 0,
\* resolves to no resource in any operation.
C30_IdZeroNeverIssued ==
    /\ \A k \in Kinds : 0 \notin issued[k] /\ 0 \notin DOMAIN TableOf(Registry)[k]
    /\ \A k \in Kinds :
          DestroyOutcome(k, <<JSUndefined>>).calls = << >>
          /\ Untouched(DestroyOutcome(k, <<JSUndefined>>))
    /\ \A p \in BackendCreate(g_rtBackend) :
          js_createBLAS(<<[isArray |-> TRUE, elems |-> <<JSUndefined>>]>>, p).ret = JSNull

\* Every outcome cleanupRTBindings can have in this state, one for each order
\* in which the tables can be iterated.
CleanupOutcomes ==
    {cleanupRTBindings(ot, ob, og) :
        ot \in Orders(DOMAIN g_tlases), ob \in Orders(DOMAIN g_blases),
        og \in Orders(DOMAIN g_geometries)}
\* The place of a backend method in the teardown: structures before what they
\* were built of, the backend itself last.
TeardownRank ==
    [destroyTLAS |-> 1, destroyBLAS |-> 2, destroyGeometry |-> 3]

\* C31: cleanup destroys in dependency order: every destroyTLAS call it makes
\* comes before every destroyBLAS call, and every destroyBLAS call before
\* every destroyGeometry call, so no BLAS goes to the backend's destroy while
\* a TLAS registered when cleanup began has not, and no geometry while such a
\* BLAS has not.
C31_CleanupDependencyOrder ==
    \A r \in CleanupOutcomes :
        LET destroys == {i \in DOMAIN r.calls : r.calls[i].m \in DOMAIN TeardownRank} IN
        /\ \A i, j \in destroys :
              i < j => TeardownRank[r.calls[i].m] <= TeardownRank[r.calls[j].m]
        /\ \A i \in destroys :
              r.calls[i].m = "destroyBLAS" =>
                  \A t \in DOMAIN g_tlases :
                      \E j \in destroys :
                          j < i /\ r.calls[j].m = "destroyTLAS" /\ r.calls[j].h = g_tlases[t]

\* Two TLASes, two BLASes and a geometry are registered, and cleanup makes
\* its five destroy calls: the TLASes first, the geometry last.
C31_Witness ==
    /\ DOMAIN g_tlases = {1, 2}
    /\ DOMAIN g_blases = {1, 2}
    /\ DOMAIN g_geometries # {}
    /\ \E r \in CleanupOutcomes :
          /\ r.calls[1].m = "destroyTLAS" /\ r.calls[2].m = "destroyTLAS"
          /\ r.calls[3].m = "destroyBLAS"
          /\ r.calls[Len(r.calls) - 1].m = "destroyGeometry"

\* C32: cleanup is idempotent and safe without a prior initialize: called
\* when no backend is active and the tables are empty, it makes no backend
\* call and leaves the state as it was - the tables empty, the allocators at
\* 1, no backend.
C32_CleanupOfNothing ==
    (g_rtBackend = NoBackend /\ \A k \in Kinds : TableOf(Registry)[k] = EmptyMap) =>
        \A r \in CleanupOutcomes :
            /\ r.calls = << >>
            /\ r.reg = Registry
            /\ r.backend = NoBackend
            /\ \A k \in Kinds : AllocatorOf(r.reg)[k] = FirstId

\* A cleanup has already torn down a backend and a TLAS (no backend is left
\* and nothing was issued since), and a second cleanup finds nothing to do.
C32_Witness ==
    /\ g_rtBackend = NoBackend
    /\ backendCount = 1
    /\ retired.tlas # {}
    /\ issued.tlas = {}
    /\ \A r \in CleanupOutcomes : r.calls = << >> /\ r.reg = Registry

\* C33: initialize called with no script engine returns false and changes
\* nothing: the active backend (or its absence), the three tables and the
\* three allocators are the same after the call as before it, and no backend
\* method (not even the old backend's destructor) is invoked.
C33_InitializeWithoutEngine ==
    LET r == initializeRTBindings(FALSE) IN
    /\ r.ret = JSBoolean(FALSE)
    /\ r.backend = g_rtBackend
    /\ Untouched(r)
    /\ r.calls = << >>

\* A supporting backend is active with a resource of every kind registered;
\* initialize with no engine is refused and keeps them, where initialize with
\* an engine would replace the backend.
C33_Witness ==
    /\ isSupported(g_rtBackend)
    /\ \A k \in Kinds : DOMAIN TableOf(Registry)[k] # {}
    /\ initializeRTBindings(FALSE).ret = JSBoolean(FALSE)
    /\ initializeRTBindings(FALSE).backend = g_rtBackend
    /\ initializeRTBindings(TRUE).backend # g_rtBackend

\* The vectors a create outcome hands to the backend method m.
VectorsPassed(r, m) == {r.calls[c].args : c \in {x \in DOMAIN r.calls : r.calls[x].m = m}}

\* C34: on a successful marshal createBLAS and createTLAS hand the backend
\* exactly one entry for each element of the script array, in array order,
\* entry i carrying the native handle now registered under the id of element
\* i; an id that occurs twice in the array is passed twice.
C34_OneEntryPerElementInOrder ==
    /\ \A args \in BLASArgs : \A p \in BackendCreate(g_rtBackend) :
          \A v \in VectorsPassed(js_createBLAS(args, p), "createBLAS") :
              /\ Len(v) = Len(args[1].elems)
              /\ \A i \in DOMAIN v : v[i] = g_geometries[getGeometryId(args[1].elems[i])]
    /\ \A args \in TLASArgs : \A p \in BackendCreate(g_rtBackend) :
          \A v \in VectorsPassed(js_createTLAS(args, p), "createTLAS") :
              /\ Len(v) = Len(args[1].elems)
              /\ \A i \in DOMAIN v : v[i].blas = g_blases[getBLASId(args[1].elems[i].blas)]

\* Both geometries and both BLASes are registered: createBLAS([g2, g1]) passes
\* the handles of 2 and 1 in that order, createBLAS([g1, g1]) the handle of 1
\* twice, and createTLAS([b2, b1]) the BLAS handles of 2 and 1.
C34_Witness ==
    /\ DOMAIN g_geometries = {1, 2}
    /\ DOMAIN g_blases = {1, 2}
    /\ VectorsPassed(js_createBLAS(<<[isArray |-> TRUE,
                                      elems |-> <<Wrapper("geometry", 2), Wrapper("geometry", 1)>>]>>,
                                   g_rtBackend.inst), "createBLAS")
          = {<<g_geometries[2], g_geometries[1]>>}
    /\ VectorsPassed(js_createBLAS(<<[isArray |-> TRUE,
                                      elems |-> <<Wrapper("geometry", 1), Wrapper("geometry", 1)>>]>>,
                                   g_rtBackend.inst), "createBLAS")
          = {<<g_geometries[1], g_geometries[1]>>}
    /\ \E v \in VectorsPassed(
                  js_createTLAS(<<[isArray |-> TRUE,
                                   elems |-> <<PlainInstance(Wrapper("blas", 2)),
                                               PlainInstance(Wrapper("blas", 1))>>]>>,
                                g_rtBackend.inst), "createTLAS") :
          v[1].blas = g_blases[2] /\ v[2].blas = g_blases[1]

====
